---- MODULE Spec2Model ----
(***************************************************************************)
(* Model of the ironyyy encrypted per-user state store:                     *)
(*   src/src/security.rs          Argon2Hash, Argon2EncryptionKey,         *)
(*                                Ciphertext (AES-256-GCM)                 *)
(*   src/src/security/helpers.rs  argon2_params, argon2_instance           *)
(*   src/src/security/errors.rs   SecurityError and its From conversions   *)
(*   src/src/db.rs                ClearTextDBState, CypherTextDBState,     *)
(*                                scan_for_db                              *)
(*   src/src/users.rs, models/    the payload records                      *)
(*                                                                         *)
(* Byte strings are sequences over 0..255.  A Rust Result is a record      *)
(* [tag |-> "Ok", val |-> v] or [tag |-> "Err", err |-> e]; a panic        *)
(* (todo!(), unwrap() on Err) is [tag |-> "Panic", msg |-> m].             *)
(*                                                                         *)
(* The two library primitives the code calls are not repository code.      *)
(* They are modelled by what the code relies on:                           *)
(*  - Argon2id: a deterministic function of (parameters, password, salt)   *)
(*    with a fixed output length that is collision free on the bounded     *)
(*    input domain (the usual idealisation of a password hash), together   *)
(*    with the library's parameter and length checks;                      *)
(*  - AES-256-GCM: counter-mode encryption (XOR with a keystream derived   *)
(*    from key, nonce and block counter) followed by a 16-byte tag, a      *)
(*    polynomial hash of the body over a binary field keyed by H(key) and  *)
(*    masked with a keystream block.  The field is GF(2^8) instead of      *)
(*    GF(2^128): one byte per block.                                       *)
(***************************************************************************)
EXTENDS Integers, Sequences, FiniteSets, TLC

VARIABLES fs, held, last

vars == <<fs, held, last>>

(***************************************************************************)
(* Bounds of the model.                                                    *)
(***************************************************************************)
MaxPasswords == 3
MaxUuids == 2
MaxNonces == 2
MaxPlainLen == 2
MaxDeltas == 2
MaxEpics == 1
MaxStories == 1

(***************************************************************************)
(* Results.                                                                *)
(***************************************************************************)
Ok(v) == [tag |-> "Ok", val |-> v]

Err(e) == [tag |-> "Err", err |-> e]

Panic(m) == [tag |-> "Panic", msg |-> m]

IsOk(r) == r.tag = "Ok"

Unit == "()"

(***************************************************************************)
(* Bytes and byte strings.                                                 *)
(***************************************************************************)
Byte == 0..255

\* Bitwise exclusive or: of two 4-bit values bit by bit (tabulated), of two
\* bytes nibble by nibble.
XorBit(a, b, w) == w * ((((a \div w) % 2) + ((b \div w) % 2)) % 2)

XorNibble ==
    [p \in 0..255 |->
        XorBit(p \div 16, p % 16, 1) + XorBit(p \div 16, p % 16, 2)
        + XorBit(p \div 16, p % 16, 4) + XorBit(p \div 16, p % 16, 8)]

Xor(a, b) ==
    (16 * XorNibble[(16 * (a \div 16)) + (b \div 16)])
    + XorNibble[(16 * (a % 16)) + (b % 16)]

\* Multiplication in GF(2^8) modulo x^8 + x^4 + x^3 + x + 1.
RECURSIVE GfMul(_, _)
GfMul(a, b) ==
    IF b = 0 THEN 0
    ELSE LET a2 == IF a >= 128 THEN Xor((2 * a) % 256, 27) ELSE 2 * a
         IN  Xor(IF b % 2 = 1 THEN a ELSE 0, GfMul(a2, b \div 2))

RECURSIVE DigestFrom(_, _)
DigestFrom(s, i) ==
    IF i > Len(s) THEN 7
    ELSE ((DigestFrom(s, i + 1) * 31) + s[i] + 1) % 251

Digest(s) == DigestFrom(s, 1)

SeqsUpTo(S, n) == UNION {[1..k -> S] : k \in 0..n}

Zeros(n) == [i \in 1..n |-> 0]

(***************************************************************************)
(* uuid::Uuid: 16 bytes; Uuid::new_v4 sets the version and variant bits.   *)
(***************************************************************************)
UuidLen == 16

UuidOf(n) ==
    [i \in 1..UuidLen |->
        IF i = 7 THEN 64 ELSE IF i = 9 THEN 128 ELSE IF i = UuidLen THEN n ELSE 0]

Uuids == {UuidOf(n) : n \in 1..MaxUuids}

NilUuid == Zeros(UuidLen)

\* &str passwords, as their UTF-8 bytes: "", "pw1", "pw1!", "pw3", "pw3!", ...
PwOf(n) ==
    IF n = 0 THEN <<>>
    ELSE IF n % 2 = 1 THEN <<112, 119, 48 + n>>
    ELSE <<112, 119, 47 + n, 33>>

Passwords == {PwOf(n) : n \in 0..(MaxPasswords - 1)}

(***************************************************************************)
(* security/errors.rs: SecurityError and the From conversions applied by ? *)
(***************************************************************************)
SecurityError(kind, cause) == [kind |-> kind, cause |-> cause]

From_aes_gcm_Error(e) == SecurityError("AesGcm", e)

From_argon2_Error(e) == SecurityError("Argon2", e)

From_password_hash_Error(e) == SecurityError("PasswordHash", e)

From_FromUtf8Error(e) == SecurityError("FromUtf8Error", e)

(***************************************************************************)
(* security/helpers.rs: the Argon2 configuration.                          *)
(***************************************************************************)
\* argon2::Params::new: the library's range checks on the cost parameters.
Params_new(m_cost, t_cost, p_cost, output_len) ==
    IF m_cost < 8 \/ m_cost < 8 * p_cost THEN Err("MemoryTooLittle")
    ELSE IF t_cost < 1 THEN Err("TimeTooSmall")
    ELSE IF p_cost < 1 THEN Err("ThreadsTooFew")
    ELSE IF output_len # "None" /\ output_len < 4 THEN Err("OutputTooShort")
    ELSE Ok([m_cost |-> m_cost, t_cost |-> t_cost, p_cost |-> p_cost,
             output_len |-> output_len])

argon2_params == Params_new(65536, 8, 1, "None")

argon2_instance ==
    LET params == argon2_params
    IN  IF ~IsOk(params) THEN Err(From_argon2_Error(params.err))
        ELSE Ok([algorithm |-> "Argon2id", version |-> 19, params |-> params.val])

(***************************************************************************)
(* The Argon2id primitive.  The output embeds (salt, password) and is      *)
(* whitened by the parameters, so that it is a function of exactly         *)
(* (parameters, password, salt) and distinct inputs of the bounded domain  *)
(* give distinct outputs.                                                  *)
(***************************************************************************)
Argon2id(ctx, pwd, salt, out_len) ==
    LET e == salt \o <<Len(pwd)>> \o pwd
        n == Len(e)
        t == ctx.params.t_cost
        c == ctx.params.m_cost + ctx.params.p_cost + ctx.version
    IN  [i \in 1..out_len |->
            ((IF i <= n THEN e[i] ELSE 0) + (t * i) + c) % 256]

\* Argon2::hash_password_into: length checks, then the primitive.
hash_password_into(ctx, pwd, salt, out_len) ==
    IF Len(salt) < 8 THEN Err("SaltTooShort")
    ELSE IF out_len < 4 THEN Err("OutputTooShort")
    ELSE Ok(Argon2id(ctx, pwd, salt, out_len))

(***************************************************************************)
(* SaltString::encode_b64 and its decoding inside hash_password: unpadded  *)
(* base64, as sequences of 6-bit digits.                                   *)
(***************************************************************************)
RECURSIVE B64Encode(_)
B64Encode(b) ==
    IF Len(b) = 0 THEN <<>>
    ELSE IF Len(b) = 1 THEN <<b[1] \div 4, (b[1] % 4) * 16>>
    ELSE IF Len(b) = 2 THEN
        <<b[1] \div 4, ((b[1] % 4) * 16) + (b[2] \div 16), (b[2] % 16) * 4>>
    ELSE <<b[1] \div 4, ((b[1] % 4) * 16) + (b[2] \div 16),
           ((b[2] % 16) * 4) + (b[3] \div 64), b[3] % 64>>
         \o B64Encode(SubSeq(b, 4, Len(b)))

RECURSIVE B64Decode(_)
B64Decode(d) ==
    IF Len(d) < 2 THEN <<>>
    ELSE IF Len(d) = 2 THEN <<(d[1] * 4) + (d[2] \div 16)>>
    ELSE IF Len(d) = 3 THEN
        <<(d[1] * 4) + (d[2] \div 16), ((d[2] % 16) * 16) + (d[3] \div 4)>>
    ELSE <<(d[1] * 4) + (d[2] \div 16), ((d[2] % 16) * 16) + (d[3] \div 4),
           ((d[3] % 4) * 64) + d[4]>>
         \o B64Decode(SubSeq(d, 5, Len(d)))

\* SaltString::encode_b64: the encoded salt must be 4..64 characters long.
SaltString_encode_b64(bytes) ==
    LET s == B64Encode(bytes)
    IN  IF Len(s) < 4 THEN Err("SaltInvalid(TooShort)")
        ELSE IF Len(s) > 64 THEN Err("SaltInvalid(TooLong)")
        ELSE Ok(s)

\* PasswordHasher::hash_password for Argon2: decode the salt, hash into the
\* default output length (32 bytes).
hash_password(ctx, pwd, salt_string) ==
    LET salt == B64Decode(salt_string)
        out_len == IF ctx.params.output_len = "None" THEN 32
                   ELSE ctx.params.output_len
        r == hash_password_into(ctx, pwd, salt, out_len)
    IN  IF ~IsOk(r) THEN Err(r.err)
        ELSE Ok([salt |-> salt_string, hash |-> Ok(r.val)])

(***************************************************************************)
(* security.rs: Argon2Hash.                                                *)
(***************************************************************************)
Argon2Hash_new(password, salt) ==
    LET argon2 == argon2_instance
    IN  IF ~IsOk(argon2) THEN Err(argon2.err)
        ELSE LET salt_string == SaltString_encode_b64(salt)
             IN  IF ~IsOk(salt_string)
                 THEN Err(From_password_hash_Error(salt_string.err))
                 ELSE LET password_hash ==
                              hash_password(argon2.val, password, salt_string.val)
                      IN  IF ~IsOk(password_hash)
                          THEN Err(From_password_hash_Error(password_hash.err))
                          ELSE IF ~IsOk(password_hash.val.hash)
                          THEN Err(SecurityError("Hash", ""))
                          ELSE Ok(password_hash.val.hash.val)

\* Variant: compares only the lengths of the two hashes.
Argon2Hash_verify_password_LengthOnly(self, password, salt) ==
    LET argon2 == argon2_instance
        salt_string == SaltString_encode_b64(salt)
        password_hash == hash_password(argon2.val, password, salt_string.val)
    IN  Ok(Len(self) = Len(password_hash.val.hash.val))

Argon2Hash_verify_password(self, password, salt) ==
    LET reference_hash == self
        argon2 == argon2_instance
    IN  IF ~IsOk(argon2) THEN Err(argon2.err)
        ELSE LET salt_string == SaltString_encode_b64(salt)
             IN  IF ~IsOk(salt_string)
                 THEN Panic("unwrap on Err")
                 ELSE LET password_hash ==
                              hash_password(argon2.val, password, salt_string.val)
                      IN  IF ~IsOk(password_hash)
                          THEN Err(From_password_hash_Error(password_hash.err))
                          ELSE IF ~IsOk(password_hash.val.hash)
                          THEN Err(SecurityError("Hash", ""))
                          ELSE Ok(reference_hash = password_hash.val.hash.val)

(***************************************************************************)
(* security.rs: Argon2EncryptionKey, a [u8; 32].                           *)
(***************************************************************************)
KeyLen == 32

Argon2EncryptionKey_new(password, salt) ==
    LET argon2 == argon2_instance
    IN  IF ~IsOk(argon2) THEN Err(argon2.err)
        ELSE LET r == hash_password_into(argon2.val, password, salt, KeyLen)
             IN  IF ~IsOk(r) THEN Err(From_argon2_Error(r.err))
                 ELSE Ok(r.val)

(***************************************************************************)
(* AES-256-GCM (Aes256Gcm of the aes_gcm crate), one byte per block.       *)
(***************************************************************************)
NonceLen == 12

TagLen == 16

NonceOf(n) == [i \in 1..NonceLen |-> IF i = NonceLen THEN n ELSE 0]

Nonces == {NonceOf(n) : n \in 1..MaxNonces}

\* The block cipher E_K applied to the counter blocks (nonce, 1..n).
KeyStream(key, nonce, n) ==
    CHOOSE ks \in {[ctr \in 1..n |-> ((kd * 7) + (nd * 13) + (ctr * 29) + 101) % 256] :
                      kd \in {Digest(key)}, nd \in {Digest(nonce)}} : TRUE

\* The hash subkey H = E_K(0), a non-zero field element.
HashSubkey(key) == 1 + (Digest(key) % 255)

\* GCTR: byte i of the text is XORed with the keystream of counter block i + 1.
Gctr(key, nonce, text) ==
    LET ks == KeyStream(key, nonce, Len(text) + 1)
    IN  [i \in 1..Len(text) |-> Xor(text[i], ks[i + 1])]

\* GHASH: Horner evaluation at H of the body followed by its length.
RECURSIVE GHashFrom(_, _, _, _)
GHashFrom(h, y, body, i) ==
    IF i > Len(body) THEN y
    ELSE GHashFrom(h, GfMul(Xor(y, body[i]), h), body, i + 1)

GHash(h, body) == GfMul(Xor(GHashFrom(h, 0, body, 1), Len(body) % 256), h)

\* The tag: GHASH masked with the keystream of counter block 1, 16 bytes.
GcmTag(key, nonce, body) ==
    CHOOSE tag \in {[j \in 1..TagLen |-> Xor(s, (m + (j * 17)) % 256)] :
                       s \in {GHash(HashSubkey(key), body)},
                       m \in {KeyStream(key, nonce, 1)[1]}} : TRUE

\* Aead::encrypt: body followed by tag.
Aes256Gcm_encrypt(key, nonce, plaintext) ==
    LET body == Gctr(key, nonce, plaintext)
    IN  Ok(body \o GcmTag(key, nonce, body))

\* Aead::decrypt: verify the tag over the body, then decrypt the body.
Aes256Gcm_decrypt(key, nonce, ciphertext) ==
    IF Len(ciphertext) < TagLen THEN Err("aead::Error")
    ELSE LET n == Len(ciphertext) - TagLen
             body == SubSeq(ciphertext, 1, n)
             tag == SubSeq(ciphertext, n + 1, Len(ciphertext))
         IN  IF tag # GcmTag(key, nonce, body) THEN Err("aead::Error")
             ELSE Ok(Gctr(key, nonce, body))

(***************************************************************************)
(* String::from_utf8: the well-formed UTF-8 byte sequences.                *)
(***************************************************************************)
IsCont(b) == b >= 128 /\ b <= 191

RECURSIVE IsUtf8(_)
IsUtf8(b) ==
    IF b = <<>> THEN TRUE
    ELSE LET n == Len(b)
             c == b[1]
         IN  IF c <= 127 THEN IsUtf8(Tail(b))
             ELSE IF c >= 194 /\ c <= 223 THEN
                 n >= 2 /\ IsCont(b[2]) /\ IsUtf8(SubSeq(b, 3, n))
             ELSE IF c >= 224 /\ c <= 239 THEN
                 /\ n >= 3
                 /\ IsCont(b[2]) /\ IsCont(b[3])
                 /\ (c = 224 => b[2] >= 160)
                 /\ (c = 237 => b[2] <= 159)
                 /\ IsUtf8(SubSeq(b, 4, n))
             ELSE IF c >= 240 /\ c <= 244 THEN
                 /\ n >= 4
                 /\ IsCont(b[2]) /\ IsCont(b[3]) /\ IsCont(b[4])
                 /\ (c = 240 => b[2] >= 144)
                 /\ (c = 244 => b[2] <= 143)
                 /\ IsUtf8(SubSeq(b, 5, n))
             ELSE FALSE

String_from_utf8(bytes) ==
    IF IsUtf8(bytes) THEN Ok(bytes) ELSE Err("FromUtf8Error")

(***************************************************************************)
(* security.rs: Ciphertext.                                                *)
(***************************************************************************)
\* Variant: encrypts under an all-zero nonce instead of the caller's.
Ciphertext_encrypt_ZeroNonce(plaintext, encryption_key, nonce) ==
    Ok(Aes256Gcm_encrypt(encryption_key, Zeros(NonceLen), plaintext).val)

Ciphertext_encrypt(plaintext, encryption_key, nonce) ==
    LET ciphertext == Aes256Gcm_encrypt(encryption_key, nonce, plaintext)
    IN  IF ~IsOk(ciphertext) THEN Err(From_aes_gcm_Error(ciphertext.err))
        ELSE Ok(ciphertext.val)

\* Variant: a failed decryption is replaced by the default (empty) plaintext.
Ciphertext_decrypt_OrDefault(self, encryption_key, nonce) ==
    LET plaintext_bytes == Aes256Gcm_decrypt(encryption_key, nonce, self)
    IN  IF ~IsOk(plaintext_bytes) THEN Ok(<<>>)
        ELSE LET plaintext == String_from_utf8(plaintext_bytes.val)
             IN  IF ~IsOk(plaintext)
                 THEN Err(From_FromUtf8Error(plaintext.err))
                 ELSE Ok(plaintext.val)

Ciphertext_decrypt(self, encryption_key, nonce) ==
    LET plaintext_bytes == Aes256Gcm_decrypt(encryption_key, nonce, self)
    IN  IF ~IsOk(plaintext_bytes)
        THEN Err(From_aes_gcm_Error(plaintext_bytes.err))
        ELSE LET plaintext == String_from_utf8(plaintext_bytes.val)
             IN  IF ~IsOk(plaintext)
                 THEN Err(From_FromUtf8Error(plaintext.err))
                 ELSE Ok(plaintext.val)

(***************************************************************************)
(* users.rs, models.rs, models/epics.rs, models/stories.rs: the payload.   *)
(***************************************************************************)
Status == {"Open", "InProgress", "Closed"}

Usernames == {"alice", "bob"}

Users ==
    [username : Usernames, user_uuid : Uuids, password_hash : {"$argon2id$"},
     totp_instance : {"None"}]

Story(uuid, title, description, status) ==
    [story_uuid |-> uuid, title |-> title, description |-> description,
     status |-> status]

Epic(uuid, title, description, status, story_uuids) ==
    [epic_uuid |-> uuid, title |-> title, description |-> description,
     status |-> status, story_uuids |-> story_uuids]

StoryValues == {Story(UuidOf(201), "s", "", "InProgress")}

EpicValues == {Epic(UuidOf(101), "e", "", "Open", <<UuidOf(201)>>)}

(***************************************************************************)
(* db.rs: ClearTextDBState and CypherTextDBState.                          *)
(***************************************************************************)
ClearStates ==
    [user : Users, epics : SeqsUpTo(EpicValues, MaxEpics),
     stories : SeqsUpTo(StoryValues, MaxStories)]

ClearTextDBState_new(user) ==
    [user |-> user, epics |-> <<>>, stories |-> <<>>]

IndicatorLen == 16

CypherTextDBState(user_uuid, username, indicator, encrypted_data) ==
    [user_uuid |-> user_uuid, username |-> username, indicator |-> indicator,
     encrypted_data |-> encrypted_data]

\* #[derive(Default)]
CypherTextDBState_default ==
    CypherTextDBState(NilUuid, "", Zeros(IndicatorLen), <<>>)

\* Envelope values a caller can hold: the struct's fields are public.
Envelopes ==
    {CypherTextDBState_default}
    \cup {CypherTextDBState(u, n, Zeros(IndicatorLen), d) :
            u \in Uuids, n \in Usernames, d \in {<<>>, <<123, 125>>}}

\* serde_json::to_vec(&self): the JSON document of the state, fields in
\* declaration order.
JsonUuid(u) == <<"string", u>>

JsonUser(u) ==
    <<"object", <<"username", <<"string", u.username>>>>,
      <<"user_uuid", JsonUuid(u.user_uuid)>>,
      <<"password_hash", <<"string", u.password_hash>>>>,
      <<"totp_instance", <<"null">>>>>>

JsonStory(st) ==
    <<"object", <<"story_uuid", JsonUuid(st.story_uuid)>>,
      <<"title", <<"string", st.title>>>>,
      <<"description", <<"string", st.description>>>>,
      <<"status", <<"string", st.status>>>>>>

JsonEpic(e) ==
    <<"object", <<"epic_uuid", JsonUuid(e.epic_uuid)>>,
      <<"title", <<"string", e.title>>>>,
      <<"description", <<"string", e.description>>>>,
      <<"status", <<"string", e.status>>>>,
      <<"story_uuids", <<"array", [i \in 1..Len(e.story_uuids) |-> JsonUuid(e.story_uuids[i])]>>>>>>

serde_json_to_vec(st) ==
    Ok(<<"object", <<"user", JsonUser(st.user)>>,
         <<"epics", <<"array", [i \in 1..Len(st.epics) |-> JsonEpic(st.epics[i])]>>>>,
         <<"stories", <<"array", [i \in 1..Len(st.stories) |-> JsonStory(st.stories[i])]>>>>>>)

\* ClearTextDBState::to_cypher_text: serialises, then reaches todo!(); the
\* indicator generation and the Ok(..) after it are never executed.
to_cypher_text(self) ==
    LET serialized_data == serde_json_to_vec(self)
    IN  IF ~IsOk(serialized_data) THEN Err(serialized_data.err)
        ELSE Panic("not yet implemented: Implement encryption of serialized_data using a postquantum algorithm")

\* CypherTextDBState::to_clear_text: reaches todo!() first.
to_clear_text(self) ==
    Panic("not yet implemented: Implement decryption of self.encrypted_data using a postquantum algorithm")

(***************************************************************************)
(* db.rs: scan_for_db over the path "databases".  The path is absent, a    *)
(* regular file, or a directory with a set of entries.                     *)
(***************************************************************************)
Absent == [kind |-> "absent", entries |-> {}]

RegularFile == [kind |-> "file", entries |-> {}]

Dir(entries) == [kind |-> "dir", entries |-> entries]

EnvelopeFile(e) == [name |-> e.username, kind |-> "file", content |-> Ok(e)]

GarbageFile == [name |-> "junk", kind |-> "file", content |-> Err("garbage")]

SubDir == [name |-> "sub", kind |-> "dir", content |-> Err("directory")]

DirEntries ==
    {EnvelopeFile(CypherTextDBState(UuidOf(1), "alice", Zeros(IndicatorLen),
                                    <<123, 125>>)),
     GarbageFile, SubDir}

FsStates == {Absent, RegularFile} \cup {Dir(E) : E \in SUBSET DirEntries}

read_dir(f) == IF f.kind = "dir" THEN Ok(f.entries) ELSE Err("NotFound")

create_dir(f) == IF f.kind = "absent" THEN Ok(Dir({})) ELSE Err("AlreadyExists")

\* Variant: a failed read_dir is returned instead of creating the directory.
scan_for_db_NoCreate(f) ==
    LET entries == read_dir(f)
    IN  IF ~IsOk(entries) THEN [out |-> Err(entries.err), fs |-> f]
        ELSE IF \E entry \in entries.val : entry.kind = "file"
        THEN [out |-> Panic("not yet implemented"), fs |-> f]
        ELSE [out |-> Ok(Unit), fs |-> f]

\* Returns the Result of the call and the path's state after it.
scan_for_db(f) ==
    LET created == IF IsOk(read_dir(f)) THEN Ok(f) ELSE create_dir(f)
    IN  IF ~IsOk(created) THEN [out |-> Err(created.err), fs |-> f]
        ELSE LET entries == read_dir(created.val)
             IN  IF ~IsOk(entries)
                 THEN [out |-> Err(entries.err), fs |-> created.val]
                 ELSE IF \E entry \in entries.val : entry.kind = "file"
                 THEN [out |-> Panic("not yet implemented: Implement database file parsing to extract username and UUID"),
                       fs |-> created.val]
                 ELSE [out |-> Ok(Unit), fs |-> created.val]

(***************************************************************************)
(* State.                                                                  *)
(*   fs    the path "databases"                                            *)
(*   held  the value the caller holds from an earlier call: a hash, a      *)
(*         ciphertext, a state or an envelope, with the inputs it was      *)
(*         made from                                                       *)
(*   last  the last call: its name, inputs and result                      *)
(***************************************************************************)
NoValue == [type |-> "none"]

Init ==
    /\ fs \in FsStates
    /\ held = NoValue
    /\ last = [op |-> "init"]

\* ClearTextDBState::new
New(user) ==
    /\ last' = [op |-> "new", in |-> user, out |-> ClearTextDBState_new(user)]
    /\ held' = [type |-> "state", val |-> ClearTextDBState_new(user)]
    /\ UNCHANGED fs

\* ClearTextDBState::to_cypher_text; on Ok the envelope replaces the one held.
ToCypherText(st) ==
    LET r == to_cypher_text(st)
    IN  /\ last' = [op |-> "to_cypher_text", in |-> st, out |-> r]
        /\ held' = IF IsOk(r)
                   THEN [type |-> "envelope", val |-> r.val, state |-> st]
                   ELSE held
        /\ UNCHANGED fs

\* CypherTextDBState::to_clear_text
ToClearText(e) ==
    /\ last' = [op |-> "to_clear_text", in |-> e, out |-> to_clear_text(e)]
    /\ UNCHANGED <<fs, held>>

ScanForDb ==
    LET r == scan_for_db(fs)
    IN  /\ last' = [op |-> "scan_for_db", before |-> fs, out |-> r.out]
        /\ fs' = r.fs
        /\ UNCHANGED held

Next ==
    \/ \E user \in Users : New(user)
    \/ \E st \in ClearStates \cup (IF held.type = "state" THEN {held.val} ELSE {}) :
           ToCypherText(st)
    \/ \E e \in Envelopes \cup (IF held.type = "envelope" THEN {held.val} ELSE {}) :
           ToClearText(e)
    \/ ScanForDb

Spec == Init /\ [][Next]_vars

(***************************************************************************)
(* The security module as a state machine.  A run is one of the scenarios  *)
(* of the tests in security.rs with its inputs drawn from the bounded      *)
(* sets: derive a hash, then verify passwords against it; or derive a      *)
(* key, encrypt under it, then decrypt.  Ciphertext(pub Vec<u8>) has a     *)
(* public field: the bytes held may be replaced before they are decrypted. *)
(***************************************************************************)
\* &str plaintexts: the well-formed UTF-8 strings over 'A' and the bytes of U+00E9.
PlainAlphabet == {65, 195, 169}

Plaintexts == {t \in SeqsUpTo(PlainAlphabet, MaxPlainLen) : IsUtf8(t)}

TamperDeltas == {(85 * k) % 256 : k \in 1..MaxDeltas} \ {0}

\* The byte strings that differ from c in exactly one byte.
SingleByteChanges(c) ==
    {[c EXCEPT ![i] = Xor(c[i], d)] : i \in 1..Len(c), d \in TamperDeltas}

\* Other Ciphertext values: truncations, and the encryption of bytes that
\* are not UTF-8 (made with the cipher directly).
Truncations(c) == {SubSeq(c, 1, n) : n \in {0, Len(c) - 1} \cap 0..Len(c)}

Replacements(h) ==
    {h.orig} \cup SingleByteChanges(h.orig) \cup Truncations(h.orig)
    \cup {Aes256Gcm_encrypt(h.key, h.nonce, <<255>>).val}

InitCrypto ==
    /\ fs = Absent
    /\ held = NoValue
    /\ last = [op |-> "init"]

\* Argon2Hash::new
HashNew(password, salt) ==
    /\ held.type = "none"
    /\ LET r == Argon2Hash_new(password, salt)
       IN  /\ last' = [op |-> "Argon2Hash::new", password |-> password,
                       salt |-> salt, out |-> r]
           /\ held' = IF IsOk(r)
                      THEN [type |-> "hash", val |-> r.val,
                            password |-> password, salt |-> salt]
                      ELSE held
    /\ UNCHANGED fs

\* Argon2Hash::verify_password on the held hash
VerifyPassword(password, salt) ==
    /\ held.type = "hash"
    /\ last' = [op |-> "verify_password", password |-> password, salt |-> salt,
                out |-> Argon2Hash_verify_password(held.val, password, salt)]
    /\ UNCHANGED <<fs, held>>

\* Argon2EncryptionKey::new
KeyNew(password, salt) ==
    /\ held.type = "none"
    /\ LET r == Argon2EncryptionKey_new(password, salt)
       IN  /\ last' = [op |-> "Argon2EncryptionKey::new",
                       password |-> password, salt |-> salt, out |-> r]
           /\ held' = IF IsOk(r)
                      THEN [type |-> "key", val |-> r.val,
                            password |-> password, salt |-> salt]
                      ELSE held
    /\ UNCHANGED fs

\* Ciphertext::encrypt under the held key
Encrypt(plaintext, nonce) ==
    /\ held.type = "key"
    /\ LET r == Ciphertext_encrypt(plaintext, held.val, nonce)
       IN  /\ last' = [op |-> "encrypt", plaintext |-> plaintext,
                       key |-> held.val, nonce |-> nonce, out |-> r]
           /\ held' = IF IsOk(r)
                      THEN [type |-> "ciphertext", val |-> r.val, orig |-> r.val,
                            plaintext |-> plaintext, key |-> held.val,
                            nonce |-> nonce]
                      ELSE held
    /\ UNCHANGED fs

\* The holder replaces the bytes of the held Ciphertext.
Replace(bytes) ==
    /\ held.type = "ciphertext"
    /\ last.op = "encrypt"
    /\ bytes # held.val
    /\ held' = [held EXCEPT !.val = bytes]
    /\ last' = [op |-> "replace"]
    /\ UNCHANGED fs

\* Ciphertext::decrypt of the held Ciphertext, under a key derived from
\* (password, salt)
Decrypt(password, salt, nonce) ==
    /\ held.type = "ciphertext"
    /\ last.op # "decrypt"
    /\ LET encryption_key == Argon2EncryptionKey_new(password, salt).val
       IN  last' = [op |-> "decrypt", self |-> held.val,
                    key |-> encryption_key, nonce |-> nonce,
                    out |-> Ciphertext_decrypt(held.val, encryption_key, nonce)]
    /\ UNCHANGED <<fs, held>>

NextCrypto ==
    \/ \E p \in Passwords, u \in Uuids : HashNew(p, u)
    \/ \E p \in Passwords, u \in Uuids : VerifyPassword(p, u)
    \/ \E p \in Passwords, u \in Uuids : KeyNew(p, u)
    \/ \E t \in Plaintexts, n \in Nonces : Encrypt(t, n)
    \/ \E c \in (IF held.type = "ciphertext" /\ last.op = "encrypt"
                  THEN Replacements(held) ELSE {}) :
           Replace(c)
    \/ \E p \in Passwords, u \in Uuids, n \in Nonces : Decrypt(p, u, n)

SpecCrypto == InitCrypto /\ [][NextCrypto]_vars

(***************************************************************************)
(* Properties of the per-user store and the scanner (Spec).                *)
(***************************************************************************)
\* The (identifier, username) pairs of the well-formed envelope files.
AccountsOf(entries) ==
    {<<e.content.val.user_uuid, e.content.val.username>> :
        e \in {x \in entries : x.kind = "file" /\ IsOk(x.content)}}

\* C1: sealing a state (to_cypher_text) and opening the resulting envelope
\* (to_clear_text) returns Ok with a state equal to the sealed one.
C1_RoundTrip ==
    last.op = "to_cypher_text" =>
        /\ IsOk(last.out)
        /\ to_clear_text(last.out.val) = Ok(last.in)

\* C2: opening the envelope of a sealed state with another password yields
\* an authentication failure, an Err and never Ok.  (Neither function takes
\* a password: the result of opening cannot depend on one.)
C2_WrongPassword ==
    last.op = "to_cypher_text" =>
        /\ IsOk(last.out)
        /\ to_clear_text(last.out.val).tag = "Err"

\* C7: re-sealing the state replaces the envelope held, and every later open
\* of the envelope held returns the state that was sealed last.
C7_PasswordChange ==
    [][last'.op = "to_cypher_text" /\ last' # last =>
          /\ held'.type = "envelope"
          /\ held'.state = last'.in
          /\ to_clear_text(held'.val) = Ok(last'.in)]_vars

\* C8: when the storage directory does not exist, scan_for_db creates it
\* empty and returns Ok: afterwards the directory exists and has no entries.
C8_FirstRun ==
    last.op = "scan_for_db" /\ last.before.kind = "absent" =>
        /\ last.out = Ok(Unit)
        /\ fs = Dir({})

C8_Witness ==
    /\ last.op = "scan_for_db"
    /\ last.before = Absent
    /\ fs.kind = "dir"

\* C9: scanning a directory that holds a well-formed envelope and a garbage
\* file completes without a fatal error and lists exactly the well-formed
\* accounts.
C9_ScannerResilience ==
    (/\ last.op = "scan_for_db"
     /\ \E e \in last.before.entries : e.kind = "file" /\ IsOk(e.content)
     /\ \E e \in last.before.entries : e.kind = "file" /\ ~IsOk(e.content)) =>
        /\ IsOk(last.out)
        /\ last.out.val = AccountsOf(last.before.entries)

\* C10: with the envelope of an account in the storage directory, scan lists
\* the account, and opening the loaded envelope returns Ok.
C10_RegistrationThenLogin ==
    (/\ last.op = "scan_for_db"
     /\ AccountsOf(last.before.entries) # {}) =>
        /\ IsOk(last.out)
        /\ AccountsOf(last.before.entries) \subseteq last.out.val
        /\ \A e \in last.before.entries :
               e.kind = "file" /\ IsOk(e.content) => IsOk(to_clear_text(e.content.val))

\* C11: every seal (to_cypher_text) returns an envelope that persists a
\* freshly generated nonce of NonceLen bytes, and the nonce of a seal differs
\* from the nonce of the envelope held from the seal before it: no nonce is
\* used by two seals.
C11_NonceUniqueness ==
    [][last'.op = "to_cypher_text" /\ last' # last =>
          /\ IsOk(last'.out)
          /\ "nonce" \in DOMAIN last'.out.val
          /\ Len(last'.out.val.nonce) = NonceLen
          /\ (held.type = "envelope" =>
                 held.val.nonce # last'.out.val.nonce)]_vars

\* C12: every seal (to_cypher_text) of a state returns an envelope whose
\* clear header carries user_uuid and username of the state's account record
\* and an indicator of IndicatorLen bytes.
C12_EnvelopeHeader ==
    last.op = "to_cypher_text" =>
        /\ IsOk(last.out)
        /\ last.out.val.user_uuid = last.in.user.user_uuid
        /\ last.out.val.username = last.in.user.username
        /\ last.out.val.indicator \in [1..IndicatorLen -> Byte]

(***************************************************************************)
(* Properties of the security module (SpecCrypto).                         *)
(***************************************************************************)
DiffersInOneByte(a, b) ==
    /\ Len(a) = Len(b)
    /\ Cardinality({i \in 1..Len(a) : a[i] # b[i]}) = 1

\* C3: decrypting, under the key and nonce of the encryption, a ciphertext
\* that differs from the encrypted one in a single byte fails with
\* SecurityError::AesGcm; it never returns Ok.
C3_TamperDetection ==
    (/\ last.op = "decrypt"
     /\ DiffersInOneByte(last.self, held.orig)
     /\ last.key = held.key
     /\ last.nonce = held.nonce) =>
        last.out = Err(SecurityError("AesGcm", "aead::Error"))

C3_Witness ==
    /\ last.op = "decrypt"
    /\ DiffersInOneByte(last.self, held.orig)
    /\ \E i \in 1..Len(held.plaintext) : last.self[i] # held.orig[i]
    /\ last.key = held.key
    /\ last.nonce = held.nonce
    /\ last.out.tag = "Err"

\* C5: verifying against h = Argon2Hash::new(p, salt) with the same salt
\* returns Ok(true) for p and Ok(false) for every other password.
C5_PasswordVerification ==
    last.op = "verify_password" /\ last.salt = held.salt =>
        last.out = Ok(last.password = held.password)

C5_Witness ==
    /\ last.op = "verify_password"
    /\ last.salt = held.salt
    /\ last.password # held.password
    /\ last.out = Ok(FALSE)

\* C6: decrypting the result of Ciphertext::encrypt(t, k, n) under the same
\* k and n returns Ok(t).
C6_CipherRoundTrip ==
    (/\ last.op = "decrypt"
     /\ last.self = held.orig
     /\ last.key = held.key
     /\ last.nonce = held.nonce) =>
        last.out = Ok(held.plaintext)

C6_Witness ==
    /\ last.op = "decrypt"
    /\ last.self = held.orig
    /\ last.key = held.key
    /\ last.nonce = held.nonce
    /\ held.plaintext = <<195, 169>>
    /\ last.out = Ok(<<195, 169>>)

====
